---------------------------- MODULE Spec2Model ----------------------------
(***************************************************************************)
(* Model of the `brand!` procedural macro of white-label (src/src/lib.rs). *)
(*                                                                         *)
(* One behaviour is one macro invocation: the clause text (a token stream) *)
(* and the process environment are fixed at the start, the text is parsed  *)
(* by WLInput::parse one loop iteration at a time, WHITE_LABEL_BRAND is    *)
(* read, and the parsed match arms are scanned in order.                   *)
(*                                                                         *)
(* A token is a record [t, v]: t is the token's lexical class and v its    *)
(* text (for a string literal: the unescaped content LitStr::value gives). *)
(***************************************************************************)
EXTENDS Naturals, Sequences, FiniteSets

(***************************************************************************)
(* Bounds of the input space.                                              *)
(***************************************************************************)
MaxClauses == 3

(***************************************************************************)
(* Tokens.                                                                 *)
(***************************************************************************)
Tok(t, v) == [t |-> t, v |-> v]

Underscore == Tok("underscore", "_")

FatArrow == Tok("fat_arrow", "=>")

Comma == Tok("comma", ",")

\* an identifier that is neither `_` nor a boolean literal
StrayIdent == Tok("ident", "brand")

(***************************************************************************)
(* enum WLBrand { Named(String), Wildcard }                                *)
(***************************************************************************)
Named(s) == [tag |-> "Named", s |-> s]

Wildcard == [tag |-> "Wildcard", s |-> ""]

(***************************************************************************)
(* syn::Lit as the macro uses it: the literal's kind and its text.         *)
(* Lit::parse accepts the literal tokens and the identifiers true/false.   *)
(***************************************************************************)
IsLit(tok) ==
    \/ tok.t \in {"str", "int", "float", "char"}
    \/ tok.t = "ident" /\ tok.v \in {"true", "false"}

LitOf(tok) ==
    [kind |-> CASE tok.t = "str" -> "Str"
                [] tok.t = "int" -> "Int"
                [] tok.t = "float" -> "Float"
                [] tok.t = "char" -> "Char"
                [] OTHER -> "Bool",
     v |-> tok.v]

\* mutant: every literal is emitted as a string literal
LitToTokensAsStr(lit) == <<Tok("str", lit.v)>>

\* quote!(#literal): the tokens a stored literal expands to
LitToTokens(lit) ==
    <<Tok(CASE lit.kind = "Str" -> "str"
            [] lit.kind = "Int" -> "int"
            [] lit.kind = "Float" -> "float"
            [] lit.kind = "Char" -> "char"
            [] OTHER -> "ident",
          lit.v)>>

(***************************************************************************)
(* The parsers.  Each takes the remaining token stream and yields          *)
(* [ok, ..., rest]; ok = FALSE is syn's Err.                               *)
(***************************************************************************)
Peek(in, t) == in # <<>> /\ Head(in).t = t

\* mutant: `_` is taken for a brand name
ParseWLBrandUnderscoreNamed(in) ==
    IF Peek(in, "underscore") \/ Peek(in, "str")
    THEN [ok |-> TRUE, brand |-> Named(Head(in).v), rest |-> Tail(in)]
    ELSE [ok |-> FALSE, brand |-> Wildcard, rest |-> in]

ParseWLBrand(in) ==
    IF Peek(in, "underscore")
    THEN [ok |-> TRUE, brand |-> Wildcard, rest |-> Tail(in)]
    ELSE IF Peek(in, "str")
         THEN [ok |-> TRUE, brand |-> Named(Head(in).v), rest |-> Tail(in)]
         ELSE [ok |-> FALSE, brand |-> Wildcard, rest |-> in]

NoMatchArm == [brand |-> Wildcard, literal |-> [kind |-> "Str", v |-> ""]]

ParseWLMatch(in) ==
    LET b == ParseWLBrand(in)
        fail == [ok |-> FALSE, m |-> NoMatchArm, rest |-> in]
    IN  IF ~b.ok THEN fail
        ELSE IF ~Peek(b.rest, "fat_arrow") THEN fail
        ELSE LET r == Tail(b.rest)
             IN  IF r = <<>> \/ ~IsLit(Head(r)) THEN fail
                 ELSE [ok |-> TRUE,
                       m |-> [brand |-> b.brand, literal |-> LitOf(Head(r))],
                       rest |-> Tail(r)]

\* mutant: a comma is consumed only between two match arms
SkipCommaBetween(in) == IF Peek(in, "comma") /\ Len(in) > 1 THEN Tail(in) ELSE in

\* lines 55-58: the comma after a match arm is consumed when present
SkipComma(in) == IF Peek(in, "comma") THEN Tail(in) ELSE in

\* one iteration of the while loop of WLInput::parse
ParseLoopBody(in, ms) ==
    LET r == ParseWLMatch(in)
    IN  IF r.ok
        THEN [ok |-> TRUE, matches |-> Append(ms, r.m), rest |-> SkipComma(r.rest)]
        ELSE [ok |-> FALSE, matches |-> ms, rest |-> in]

RECURSIVE ParseLoop(_, _)
ParseLoop(in, ms) ==
    IF in = <<>> THEN [ok |-> TRUE, matches |-> ms]
    ELSE LET r == ParseLoopBody(in, ms)
         IN  IF r.ok THEN ParseLoop(r.rest, r.matches)
             ELSE [ok |-> FALSE, matches |-> <<>>]

\* WLInput::parse on a whole token stream
ParseWLInput(in) == ParseLoop(in, <<>>)


(***************************************************************************)
(* The process environment and the outcomes of one invocation.             *)
(***************************************************************************)
Unset == [ok |-> FALSE, v |-> ""]

SetTo(s) == [ok |-> TRUE, v |-> s]

\* env::var("WHITE_LABEL_BRAND")
EnvVar(e) == e

NoOutcome == [kind |-> "None", tokens |-> <<>>, msg |-> ""]

\* the macro returned this token stream to the compiler
Expansion(toks) == [kind |-> "Tokens", tokens |-> toks, msg |-> ""]

\* parse_macro_input! returned the syntax error as a compile_error! stream
CompileError == [kind |-> "CompileError", tokens |-> <<>>, msg |-> ""]

PanicWith(m) == [kind |-> "Panic", tokens |-> <<>>, msg |-> m]

MustBeSetMsg == "WHITE_LABEL_BRAND must be set."

(***************************************************************************)
(* The input space: every text is a rendered clause list, as written or    *)
(* with one token deleted or replaced by a stray identifier.               *)
(***************************************************************************)
BrandNames == {"A", "B", "C", "a"}

Environments == {Unset} \cup {SetTo(s) : s \in BrandNames}

PatternToks == {Tok("str", "A"), Tok("str", "B"), Underscore}

ValueSchemes == {"ints", "kindsA", "kindsB"}

Digit(i) ==
    CASE i = 1 -> "1" [] i = 2 -> "2" [] i = 3 -> "3" [] i = 4 -> "4" [] OTHER -> "9"

ValueAt(scheme, i) ==
    CASE scheme = "ints" -> Tok("int", Digit(i))
      [] scheme = "kindsA" ->
            (CASE i % 3 = 1 -> Tok("str", "1")
               [] i % 3 = 2 -> Tok("int", "1")
               [] OTHER -> Tok("ident", "true"))
      [] OTHER ->
            (CASE i % 3 = 1 -> Tok("float", "3.14")
               [] i % 3 = 2 -> Tok("char", "T")
               [] OTHER -> Tok("ident", "false"))

PatternSeqs == UNION {[1..n -> PatternToks] : n \in 0..MaxClauses}

Render(ps, scheme, trailing) ==
    LET n == Len(ps)
        len == IF n = 0 THEN 0 ELSE IF trailing THEN 4 * n ELSE 4 * n - 1
        f == [k \in 1..len |->
                LET i == ((k - 1) \div 4) + 1
                    j == (k - 1) % 4
                IN  CASE j = 0 -> ps[i]
                      [] j = 1 -> FatArrow
                      [] j = 2 -> ValueAt(scheme, i)
                      [] OTHER -> Comma]
    IN  SubSeq(f, 1, len)

Delete(toks, k) == SubSeq(toks, 1, k - 1) \o SubSeq(toks, k + 1, Len(toks))

Replace(toks, k, tok) == SubSeq(toks, 1, k - 1) \o <<tok>> \o SubSeq(toks, k + 1, Len(toks))

Edits(toks) ==
    {toks} \cup {Delete(toks, k) : k \in 1..Len(toks)}
           \cup {Replace(toks, k, StrayIdent) : k \in 1..Len(toks)}

Texts ==
    UNION {Edits(Render(ps, sc, tr)) :
             ps \in PatternSeqs, sc \in ValueSchemes, tr \in BOOLEAN}

(***************************************************************************)
(* State of one invocation of brand(input).                                *)
(***************************************************************************)
VARIABLES
    input,      \* the macro's argument: the clause text as a token stream
    env,        \* WHITE_LABEL_BRAND in the process environment
    pc,         \* "parse", "env", "scan", "panic" or "done"
    rest,       \* the ParseStream: the tokens not yet consumed
    matches,    \* WLInput.matches, in push order
    env_value,  \* the binding of `if let Ok(env_value)`
    idx,        \* the for loop's position in parsed_input.matches
    outcome     \* what the invocation produced

vars == <<input, env, pc, rest, matches, env_value, idx, outcome>>

Unbound == [bound |-> FALSE, v |-> ""]

Bound(s) == [bound |-> TRUE, v |-> s]

Init ==
    /\ input \in Texts
    /\ env \in Environments
    /\ pc = "parse"
    /\ rest = input
    /\ matches = <<>>
    /\ env_value = Unbound
    /\ idx = 1
    /\ outcome = NoOutcome

\* mutant: a syntax error ends parsing with the arms parsed so far
ParseErrorIgnored ==
    /\ pc' = "env"
    /\ UNCHANGED <<input, env, rest, matches, env_value, idx, outcome>>

\* line 118: parse_macro_input! returns the error's compile_error! tokens
ParseError ==
    /\ pc' = "done"
    /\ outcome' = CompileError
    /\ UNCHANGED <<input, env, rest, matches, env_value, idx>>

\* lines 52-59: one iteration of the parse loop
ParseIter ==
    /\ pc = "parse"
    /\ rest # <<>>
    /\ LET r == ParseLoopBody(rest, matches)
       IN  IF r.ok
           THEN /\ matches' = r.matches
                /\ rest' = r.rest
                /\ UNCHANGED <<input, env, pc, env_value, idx, outcome>>
           ELSE ParseError

\* lines 52, 60: the stream is empty, parsing returns Ok(WLInput { matches })
ParseEnd ==
    /\ pc = "parse"
    /\ rest = <<>>
    /\ pc' = "env"
    /\ UNCHANGED <<input, env, rest, matches, env_value, idx, outcome>>

\* mutant: a missing variable reads as the empty brand (unwrap_or_default)
ReadEnvOrDefault ==
    /\ pc = "env"
    /\ env_value' = Bound(EnvVar(env).v)
    /\ pc' = "scan"
    /\ UNCHANGED <<input, env, rest, matches, idx, outcome>>

\* line 121: if let Ok(env_value) = env::var("WHITE_LABEL_BRAND")
ReadEnv ==
    /\ pc = "env"
    /\ IF EnvVar(env).ok
       THEN /\ env_value' = Bound(EnvVar(env).v)
            /\ pc' = "scan"
       ELSE /\ env_value' = env_value
            /\ pc' = "panic"
    /\ UNCHANGED <<input, env, rest, matches, idx, outcome>>

Lower(s) == CASE s = "A" -> "a" [] s = "B" -> "b" [] s = "C" -> "c" [] OTHER -> s

\* mutant: brand names are compared without regard to case
ArmMatchesIgnoreCase(brand, ev) ==
    \/ brand.tag = "Named" /\ Lower(brand.s) = Lower(ev)
    \/ brand.tag = "Wildcard"

\* lines 123-131: does this arm return?
ArmMatches(brand, ev) ==
    \/ brand.tag = "Named" /\ brand.s = ev
    \/ brand.tag = "Wildcard"

\* mutant: a wildcard arm is passed over while a later named arm matches
ScanIterWildcardLast ==
    /\ pc = "scan"
    /\ idx <= Len(matches)
    /\ IF \/ matches[idx].brand = Named(env_value.v)
          \/ /\ matches[idx].brand = Wildcard
             /\ \A j \in (idx + 1)..Len(matches) : matches[j].brand # Named(env_value.v)
       THEN /\ outcome' = Expansion(LitToTokens(matches[idx].literal))
            /\ pc' = "done"
            /\ idx' = idx
       ELSE /\ idx' = idx + 1
            /\ UNCHANGED <<pc, outcome>>
    /\ UNCHANGED <<input, env, rest, matches, env_value>>

\* lines 122-131: one iteration of the for loop
ScanIter ==
    /\ pc = "scan"
    /\ idx <= Len(matches)
    /\ IF ArmMatches(matches[idx].brand, env_value.v)
       THEN /\ outcome' = Expansion(LitToTokens(matches[idx].literal))
            /\ pc' = "done"
            /\ idx' = idx
       ELSE /\ idx' = idx + 1
            /\ UNCHANGED <<pc, outcome>>
    /\ UNCHANGED <<input, env, rest, matches, env_value>>

\* mutant: an exhausted scan falls back to the last arm
ScanEndDefault ==
    /\ pc = "scan"
    /\ idx > Len(matches)
    /\ IF matches = <<>>
       THEN pc' = "panic" /\ UNCHANGED <<idx, outcome>>
       ELSE /\ pc' = "done"
            /\ idx' = Len(matches)
            /\ outcome' = Expansion(LitToTokens(matches[Len(matches)].literal))
    /\ UNCHANGED <<input, env, rest, matches, env_value>>

\* line 132: the for loop is exhausted, control falls out of the if let
ScanEnd ==
    /\ pc = "scan"
    /\ idx > Len(matches)
    /\ pc' = "panic"
    /\ UNCHANGED <<input, env, rest, matches, env_value, idx, outcome>>

\* line 135
Panic ==
    /\ pc = "panic"
    /\ outcome' = PanicWith(MustBeSetMsg)
    /\ pc' = "done"
    /\ UNCHANGED <<input, env, rest, matches, env_value, idx>>

Next ==
    \/ ParseIter
    \/ ParseEnd
    \/ ReadEnv
    \/ ScanIter
    \/ ScanEnd
    \/ Panic

Spec == Init /\ [][Next]_vars

TypeOK ==
    /\ pc \in {"parse", "env", "scan", "panic", "done"}
    /\ idx \in 1..(Len(matches) + 1)
    /\ env_value.bound \in BOOLEAN
    /\ outcome.kind \in {"None", "Tokens", "CompileError", "Panic"}
    /\ (pc = "done") = (outcome.kind # "None")

(***************************************************************************)
(* Vocabulary of the properties, read off the clause text itself.          *)
(***************************************************************************)
\* WLInput::parse returned Ok
Accepted == pc \in {"env", "scan", "panic"} \/ (pc = "done" /\ outcome.kind # "CompileError")

ArrowPositions(toks) == {q \in 1..Len(toks) : toks[q] = FatArrow}

\* the position of the k-th `=>` of the text
KthArrow(toks, k) ==
    CHOOSE q \in ArrowPositions(toks) :
        Cardinality({p \in ArrowPositions(toks) : p <= q}) = k

WrittenPattern(toks, k) == toks[KthArrow(toks, k) - 1]

WrittenValue(toks, k) == toks[KthArrow(toks, k) + 1]

\* the pattern a written pattern token denotes
PatternOf(tok) == IF tok = Underscore THEN Wildcard ELSE Named(tok.v)

\* Named(s) matches iff s = b, Wildcard always
PatternMatches(brand, b) == brand = Wildcard \/ brand = Named(b)

MatchingIndices(ms, b) == {i \in 1..Len(ms) : PatternMatches(ms[i].brand, b)}

WildcardIndices(ms) == {i \in 1..Len(ms) : ms[i].brand = Wildcard}

Least(S) == CHOOSE x \in S : \A y \in S : x <= y

\* some `=>` beyond the first clause whose pattern is not preceded by a comma
MissingSeparator(toks) ==
    \E q \in ArrowPositions(toks) : q >= 3 /\ toks[q - 2] # Comma

Resolved == pc = "done" /\ Accepted

\* what an invocation ends in when WHITE_LABEL_BRAND is not set (see C4)
ConfigMissingOutcome == PanicWith(MustBeSetMsg)

(***************************************************************************)
(* C1: for a well-formed clause list and a configured brand b, resolution  *)
(* returns the value of the clause with the smallest index whose pattern   *)
(* matches b (Named(s) iff s = b exactly, Wildcard always); a later        *)
(* matching clause is never the one returned.                              *)
(***************************************************************************)
C1_FirstMatchWins ==
    (Resolved /\ env.ok /\ MatchingIndices(matches, env.v) # {}) =>
        outcome = Expansion(<<WrittenValue(input, Least(MatchingIndices(matches, env.v)))>>)

C1_Witness ==
    /\ pc = "done"
    /\ env = SetTo("A")
    /\ Len(matches) = 3
    /\ matches[1].brand = Named("A")
    /\ matches[2].brand = Named("B")
    /\ matches[3].brand = Named("A")
    /\ matches[3].literal = [kind |-> "Int", v |-> "3"]
    /\ outcome = Expansion(<<Tok("int", "1")>>)

(***************************************************************************)
(* C2: a Wildcard clause at index i preceded by no matching Named clause   *)
(* supplies the result for every brand, also for a brand that equals a     *)
(* Named pattern at a later index.                                         *)
(***************************************************************************)
C2_WildcardShortCircuit ==
    (Resolved /\ env.ok) =>
        \A i \in WildcardIndices(matches) :
            (\A j \in 1..(i - 1) : matches[j].brand.tag = "Named"
                                     /\ matches[j].brand.s # env.v)
            => /\ outcome.kind = "Tokens"
               /\ outcome.tokens = <<WrittenValue(input, i)>>

C2_Witness ==
    /\ pc = "done"
    /\ env = SetTo("B")
    /\ Len(matches) = 3
    /\ matches[1].brand = Named("A")
    /\ matches[2].brand = Wildcard
    /\ matches[3].brand = Named("B")
    /\ matches[3].literal = [kind |-> "Int", v |-> "3"]
    /\ outcome = Expansion(<<Tok("int", "2")>>)

(***************************************************************************)
(* C3: with the brand configured and a well-formed clause list holding no  *)
(* Named pattern equal to the brand and no Wildcard (the empty list        *)
(* included), resolution fails fatally and produces no value.              *)
(***************************************************************************)
C3_NoMatchIsFatal ==
    (Resolved /\ env.ok /\ MatchingIndices(matches, env.v) = {}) =>
        outcome.kind = "Panic" /\ outcome.tokens = <<>>

C3_Witness ==
    /\ pc = "done"
    /\ env = SetTo("C")
    /\ Len(matches) = 2
    /\ matches[1].brand = Named("A")
    /\ matches[2].brand = Named("B")
    /\ outcome.kind = "Panic"

(***************************************************************************)
(* C4: with WHITE_LABEL_BRAND not set, resolution fails with the           *)
(* missing-configuration error for every well-formed clause list, also one *)
(* that is a single Wildcard clause; no clause value is returned.          *)
(***************************************************************************)
C4_MissingConfigIsFatal ==
    (Resolved /\ ~env.ok) => outcome = PanicWith(MustBeSetMsg)

C4_Witness ==
    /\ pc = "done"
    /\ env = Unset
    /\ Len(matches) = 1
    /\ matches[1].brand = Wildcard
    /\ outcome.kind = "Panic"

(***************************************************************************)
(* C5: the failure outcome identifies the fatal condition: the outcome of  *)
(* a set but unmatched brand (NoMatch) differs from the outcome reported   *)
(* for a missing configuration (ConfigMissing), and neither is the syntax  *)
(* error outcome.                                                          *)
(***************************************************************************)
C5_FailureIdentifiesCondition ==
    (Resolved /\ env.ok /\ MatchingIndices(matches, env.v) = {}) =>
        /\ outcome # CompileError
        /\ outcome # ConfigMissingOutcome

(***************************************************************************)
(* C6: the parser rejects with a syntax error every clause text in which   *)
(* two consecutive clauses are not separated by a comma.                   *)
(***************************************************************************)
C6_MissingSeparatorRejected ==
    (pc = "done" /\ MissingSeparator(input)) => outcome = CompileError

(***************************************************************************)
(* C7: for a well-formed clause text of at least one clause, the text with *)
(* and the text without the comma after the final clause both parse, to    *)
(* the same clause list: the patterns and values written, in order.        *)
(***************************************************************************)
C7_TrailingCommaTolerance ==
    (Accepted /\ Len(matches) >= 1) =>
        LET n == Len(input)
            other == IF input[n] = Comma THEN SubSeq(input, 1, n - 1)
                                         ELSE Append(input, Comma)
            r == ParseWLInput(other)
        IN  /\ r.ok
            /\ r.matches = matches
            /\ Len(matches) = Cardinality(ArrowPositions(input))
            /\ \A k \in 1..Len(matches) :
                 /\ matches[k].brand = PatternOf(WrittenPattern(input, k))
                 /\ LitToTokens(matches[k].literal) = <<WrittenValue(input, k)>>

C7_Witness ==
    /\ pc = "env"
    /\ Len(matches) = 2
    /\ input[Len(input)] = Comma
    /\ ParseWLInput(SubSeq(input, 1, Len(input) - 1)).matches = matches

(***************************************************************************)
(* C8 as stated: every clause list the parser accepts holds at most one    *)
(* Wildcard clause.                                                        *)
(***************************************************************************)
C8_AtMostOneWildcard ==
    Accepted => Cardinality(WildcardIndices(matches)) <= 1

(***************************************************************************)
(* C8 as amended: the parser limits the number of Wildcard clauses in no   *)
(* way: an accepted clause list holds one Wildcard clause for each `_` of  *)
(* the text, and the scan never goes past the first of them.               *)
(***************************************************************************)
C8_WildcardsAsWritten ==
    Accepted =>
        /\ Cardinality(WildcardIndices(matches))
             = Cardinality({k \in 1..Len(input) : input[k] = Underscore})
        /\ WildcardIndices(matches) # {} => idx <= Least(WildcardIndices(matches))

C8_Witness ==
    /\ pc = "done"
    /\ Cardinality(WildcardIndices(matches)) >= 2
    /\ outcome.kind = "Tokens"
    /\ idx = Least(WildcardIndices(matches))

(***************************************************************************)
(* C9: when resolution succeeds the result is exactly the literal token of *)
(* the selected clause, unchanged in kind and content, and a value that    *)
(* occurs in the clause list.                                              *)
(***************************************************************************)
C9_LiteralPreserved ==
    (pc = "done" /\ outcome.kind = "Tokens") =>
        /\ Len(outcome.tokens) = 1
        /\ outcome.tokens[1] = WrittenValue(input, idx)
        /\ LitOf(outcome.tokens[1]) = matches[idx].literal

C9_Witness ==
    /\ pc = "done"
    /\ Len(matches) = 3
    /\ idx = 3
    /\ matches[idx].brand = Named("B")
    /\ outcome = Expansion(<<Tok("ident", "false")>>)
    /\ matches[1].literal = [kind |-> "Float", v |-> "3.14"]

(***************************************************************************)
(* C10: the whole clause text is parsed before the brand configuration is  *)
(* read and before any clause is matched: a text with a syntax error       *)
(* anywhere ends in the syntax error and no value, whatever precedes the   *)
(* error and whether or not the brand is configured.                       *)
(***************************************************************************)
C10_ParseBeforeResolve ==
    /\ pc = "parse" => env_value = Unbound /\ idx = 1 /\ outcome = NoOutcome
    /\ env_value.bound => ParseWLInput(input).ok
    /\ (pc = "done" /\ ~ParseWLInput(input).ok) => outcome = CompileError

C10_Witness ==
    /\ pc = "done"
    /\ outcome = CompileError
    /\ Len(matches) = 2
    /\ matches[1].brand = Named("A")
    /\ matches[2].brand = Wildcard
    /\ env = SetTo("A")

=============================================================================
